---- MODULE Spec2Model ----
(***************************************************************************)
(* A model of RosterManager (src/system.cpp): the student store, the       *)
(* global and per-group sampling pools, the call history, and the bulk     *)
(* loader.  Strings are sequences of one-character strings so that trim,   *)
(* find and substr are computed as the code computes them.  Handles are    *)
(* 0-based as in the code: handle i refers to students[i + 1].             *)
(***************************************************************************)
EXTENDS Integers, Sequences, FiniteSets, TLC

VARIABLES students,    \* std::vector<Student> students_
          groupPools,  \* std::unordered_map<string, deque<size_t>> groupPools_
          globalPool,  \* std::deque<size_t> globalPool_
          history,     \* std::list<CallRecord> history_
          clock,       \* std::chrono::system_clock, as the ordinal of the next draw
          ret,         \* the operation last called and what it returned or printed
          cycle,       \* per scope: the handles returned in the current run of draws
          drawn        \* the same, for runs that resetCycle does not end

vars == <<students, groupPools, globalPool, history, clock, ret, cycle, drawn>>

(***************************************************************************)
(* Bounds of the model.                                                    *)
(***************************************************************************)
MaxDraws == 2        \* draws in a run of Spec
MaxScopedDraws == 3  \* draws in a run of SpecScoped
MaxRecords == 3      \* draws in a run of SpecHistory
MaxLimit == 3        \* the largest limit printHistory is called with
MaxCycleDraws == 4   \* draws in a run of SpecCycle
MaxLines == 2        \* lines of a generated line source

(***************************************************************************)
(* Input alphabets.                                                        *)
(***************************************************************************)
Alice == <<"A", "l", "i", "c", "e">>
Bob == <<"B", "o", "b">>
Carol == <<"C", "a", "r", "o", "l">>
A1 == <<"A", "1">>
A2 == <<"A", "2">>
B2 == <<"B", "2">>

\* the names and groups addStudent and pickRandom are called with
Names == {Alice, Bob, Carol}
Groups == {A1, A2}

\* the (name, group) pairs a new student is added with (a call for a name
\* already in the store comes with either group)
Enrolments == {<<Alice, A1>>, <<Bob, A1>>, <<Carol, A2>>}

\* std::optional<T> is a sequence of at most one T: std::nullopt is <<>>
NullOpt == <<>>
Some(x) == <<x>>

\* the scopes a draw can address: no group (the global scope) or one group
Scopes == {NullOpt} \cup {Some(g) : g \in Groups}

(***************************************************************************)
(* std::string helpers.  Positions are 0-based; npos is the "not found"    *)
(* position.                                                               *)
(***************************************************************************)
npos == -1

\* the character set " \t\r\n" of trim
Whitespace == {" ", "\t", "\r", "\n"}

Min(a, b) == IF a < b THEN a ELSE b

\* text.find_first_not_of(set)
FindFirstNotOf(text, set) ==
  IF \E i \in 1..Len(text) : text[i] \notin set
  THEN (CHOOSE i \in 1..Len(text) :
          /\ text[i] \notin set
          /\ \A j \in 1..(i - 1) : text[j] \in set) - 1
  ELSE npos

\* text.find_last_not_of(set)
FindLastNotOf(text, set) ==
  IF \E i \in 1..Len(text) : text[i] \notin set
  THEN (CHOOSE i \in 1..Len(text) :
          /\ text[i] \notin set
          /\ \A j \in (i + 1)..Len(text) : text[j] \in set) - 1
  ELSE npos

\* text.find(ch)
Find(text, ch) ==
  IF \E i \in 1..Len(text) : text[i] = ch
  THEN (CHOOSE i \in 1..Len(text) :
          /\ text[i] = ch
          /\ \A j \in 1..(i - 1) : text[j] # ch) - 1
  ELSE npos

\* text.substr(pos, n)
Substr(text, pos, n) == SubSeq(text, pos + 1, Min(pos + n, Len(text)))

\* text.substr(pos)
SubstrFrom(text, pos) == SubSeq(text, pos + 1, Len(text))

\* RosterManager::trim
trim(text) ==
  LET first == FindFirstNotOf(text, Whitespace)
      last == FindLastNotOf(text, Whitespace)
  IN IF first = npos THEN <<>> ELSE Substr(text, first, last - first + 1)

(***************************************************************************)
(* The store.                                                              *)
(***************************************************************************)
\* Student{name, group, 0}
Student(name, group) == [name |-> name, group |-> group, callCount |-> 0]

\* the find_if of addStudent: some student has this name
HasName(studs, name) == \E i \in 1..Len(studs) : studs[i].name = name

\* addStudent whose find_if compares the name and the group
addStudentNameAndGroup(studs, name, group) ==
  IF \E i \in 1..Len(studs) : studs[i].name = name /\ studs[i].group = group
  THEN [ok |-> FALSE, students |-> studs]
  ELSE [ok |-> TRUE, students |-> Append(studs, Student(name, group))]

\* addStudent taking the group of the call for a name it already has
addStudentRegroup(studs, name, group) ==
  IF HasName(studs, name)
  THEN [ok |-> FALSE,
        students |-> [i \in 1..Len(studs) |->
                        IF studs[i].name = name
                        THEN [studs[i] EXCEPT !.group = group]
                        ELSE studs[i]]]
  ELSE [ok |-> TRUE, students |-> Append(studs, Student(name, group))]

\* addStudent on the store alone (what it does with refreshPools = false):
\* the value returned and the store afterwards
addStudent(studs, name, group) ==
  IF HasName(studs, name)
  THEN [ok |-> FALSE, students |-> studs]
  ELSE [ok |-> TRUE, students |-> Append(studs, Student(name, group))]

\* ImportStats{}
ZeroStats == [added |-> 0, duplicates |-> 0, malformed |-> 0]

\* the loop body of loadFromStream looking for the comma before it tests
\* for a comment
loadLineCommaFirst(acc, line) ==
  LET trimmed == trim(line)
      comma == Find(trimmed, ",")
      name == trim(Substr(trimmed, 0, comma))
      group == trim(SubstrFrom(trimmed, comma + 1))
      added == addStudent(acc.students, name, group)
  IN IF trimmed = <<>>
     THEN acc
     ELSE IF comma = npos
     THEN [acc EXCEPT !.stats.malformed = @ + 1]
     ELSE IF trimmed[1] = "#"
     THEN acc
     ELSE IF name = <<>> \/ group = <<>>
     THEN [acc EXCEPT !.stats.malformed = @ + 1]
     ELSE IF added.ok
     THEN [students |-> added.students,
           stats |-> [acc.stats EXCEPT !.added = @ + 1]]
     ELSE [acc EXCEPT !.stats.duplicates = @ + 1]

\* one iteration of the while loop of loadFromStream, on acc = the store and
\* the statistics so far
loadLine(acc, line) ==
  LET trimmed == trim(line)
      comma == Find(trimmed, ",")
      name == trim(Substr(trimmed, 0, comma))
      group == trim(SubstrFrom(trimmed, comma + 1))
      added == addStudent(acc.students, name, group)
  IN IF trimmed = <<>> \/ trimmed[1] = "#"
     THEN acc
     ELSE IF comma = npos
     THEN [acc EXCEPT !.stats.malformed = @ + 1]
     ELSE IF name = <<>> \/ group = <<>>
     THEN [acc EXCEPT !.stats.malformed = @ + 1]
     ELSE IF added.ok
     THEN [students |-> added.students,
           stats |-> [acc.stats EXCEPT !.added = @ + 1]]
     ELSE [acc EXCEPT !.stats.duplicates = @ + 1]

RECURSIVE loadFromStream(_, _)
\* RosterManager::loadFromStream: input is the sequence of lines getline yields
loadFromStream(acc, input) ==
  IF input = <<>>
  THEN acc
  ELSE loadFromStream(loadLine(acc, Head(input)), Tail(input))

(***************************************************************************)
(* Pools.                                                                  *)
(***************************************************************************)
\* std::iota(begin, end, 0) on a vector of n elements
Iota(n) == [i \in 1..n |-> i - 1]

\* v without its i-th element
Remove(v, i) == SubSeq(v, 1, i - 1) \o SubSeq(v, i + 1, Len(v))

RECURSIVE Shuffle(_)
\* std::shuffle(begin, end, rng_): every permutation of v is a possible outcome
Shuffle(v) ==
  IF v = <<>>
  THEN {<<>>}
  ELSE UNION {{<<v[i]>> \o p : p \in Shuffle(Remove(v, i))} : i \in 1..Len(v)}

\* groupPools_[group]: operator[] inserts an empty deque for a missing key
Touch(pools, group) ==
  IF group \in DOMAIN pools THEN pools ELSE pools @@ (group :> <<>>)

\* groupPools_.erase(group)
Erase(pools, group) == [k \in DOMAIN pools \ {group} |-> pools[k]]

\* refillGlobalPool over one index too few
refillGlobalPoolShort(studs) ==
  IF studs = <<>> THEN {<<>>} ELSE Shuffle(Iota(Len(studs) - 1))

\* refillGlobalPool: the values globalPool_ can have afterwards
refillGlobalPool(studs) == Shuffle(Iota(Len(studs)))

\* the for loop of refillGroupPool stopping at i + 1 < students_.size()
GroupIndicesSkipLast(studs, group) ==
  LET InGroup(i) == studs[i + 1].group = group
  IN SelectSeq(Iota(Len(studs) - 1), InGroup)

\* the for loop of refillGroupPool testing group != group
GroupIndicesOthers(studs, group) ==
  LET NotInGroup(i) == studs[i + 1].group # group
  IN SelectSeq(Iota(Len(studs)), NotInGroup)

\* the for loop of refillGroupPool without its test of the group
GroupIndicesAll(studs, group) == Iota(Len(studs))

\* the indices collected by the for loop of refillGroupPool
GroupIndices(studs, group) ==
  LET InGroup(i) == studs[i + 1].group = group
  IN SelectSeq(Iota(Len(studs)), InGroup)

\* refillGroupPool calling groupPools_.clear() for a group without students
refillGroupPoolClears(studs, pools, group) ==
  LET indices == GroupIndices(studs, group)
  IN IF indices = <<>>
     THEN {<<>>}
     ELSE {[Touch(pools, group) EXCEPT ![group] = p] : p \in Shuffle(indices)}

\* refillGroupPool: the values groupPools_ can have afterwards
refillGroupPool(studs, pools, group) ==
  LET indices == GroupIndices(studs, group)
  IN IF indices = <<>>
     THEN {Erase(pools, group)}
     ELSE {[Touch(pools, group) EXCEPT ![group] = p] : p \in Shuffle(indices)}

\* CallRecord{name, group, now()}
CallRecord(name, group, now) == [name |-> name, group |-> group, timestamp |-> now]

\* consumeIndex with student a copy of students_[idx], not a reference
consumeIndexCopy(studs, hist, pool, now) ==
  LET idx == Head(pool)
      student == [studs[idx + 1] EXCEPT !.callCount = @ + 1]
  IN [pool |-> Tail(pool),
      students |-> studs,
      history |-> Append(hist, CallRecord(student.name, student.group, now)),
      value |-> student,
      idx |-> idx]

\* consumeIndex reading pool.back() and popping the front
consumeIndexBack(studs, hist, pool, now) ==
  LET idx == pool[Len(pool)]
      student == [studs[idx + 1] EXCEPT !.callCount = @ + 1]
  IN [pool |-> Tail(pool),
      students |-> [studs EXCEPT ![idx + 1] = student],
      history |-> Append(hist, CallRecord(student.name, student.group, now)),
      value |-> student,
      idx |-> idx]

\* consumeIndex without its pop_front()
consumeIndexNoPop(studs, hist, pool, now) ==
  LET idx == Head(pool)
      student == [studs[idx + 1] EXCEPT !.callCount = @ + 1]
  IN [pool |-> pool,
      students |-> [studs EXCEPT ![idx + 1] = student],
      history |-> Append(hist, CallRecord(student.name, student.group, now)),
      value |-> student,
      idx |-> idx]

\* consumeIndex without ++student.callCount
consumeIndexNoCount(studs, hist, pool, now) ==
  LET idx == Head(pool)
      student == studs[idx + 1]
  IN [pool |-> Tail(pool),
      students |-> studs,
      history |-> Append(hist, CallRecord(student.name, student.group, now)),
      value |-> student,
      idx |-> idx]

\* consumeIndex(pool): the pool, the store and the history afterwards, the
\* Student returned, and the handle consumed
consumeIndex(studs, hist, pool, now) ==
  LET idx == Head(pool)
      student == [studs[idx + 1] EXCEPT !.callCount = @ + 1]
  IN [pool |-> Tail(pool),
      students |-> [studs EXCEPT ![idx + 1] = student],
      history |-> Append(hist, CallRecord(student.name, student.group, now)),
      value |-> student,
      idx |-> idx]

(***************************************************************************)
(* History output.  A printed line is the record it shows; the message     *)
(* "No history yet" is the flag noHistory.                                 *)
(***************************************************************************)
RECURSIVE printLoopLate(_, _, _, _)
\* the for loop of printHistory breaking at count > limit
printLoopLate(hist, it, count, limit) ==
  IF it = 0
  THEN <<>>
  ELSE IF limit # 0 /\ count + 1 > limit
  THEN <<hist[it]>>
  ELSE <<hist[it]>> \o printLoopLate(hist, it - 1, count + 1, limit)

RECURSIVE printLoop(_, _, _, _)
\* the for loop of printHistory: it is the position of the reverse iterator
\* (0 is rend()), count the lines printed so far
printLoop(hist, it, count, limit) ==
  IF it = 0
  THEN <<>>
  ELSE IF limit # 0 /\ count + 1 >= limit
  THEN <<hist[it]>>
  ELSE <<hist[it]>> \o printLoop(hist, it - 1, count + 1, limit)

\* RosterManager::printHistory: what it writes to std::cout
printHistory(hist, limit) ==
  IF hist = <<>>
  THEN [noHistory |-> TRUE, lines |-> <<>>]
  ELSE [noHistory |-> FALSE, lines |-> printLoop(hist, Len(hist), 0, limit)]

(***************************************************************************)
(* Line sources for importFromFile: the lines std::getline yields.         *)
(***************************************************************************)
LineAlice == <<"A", "l", "i", "c", "e", ",", " ", "A", "1">>
LineBlank == <<>>
LineComment == <<"#", " ", "c", "o", "m", "m", "e", "n", "t">>
LineBob == <<"B", "o", "b", ",", "B", "2">>
LineBad == <<"b", "a", "d", "-", "l", "i", "n", "e">>
LineNoFields == <<" ", " ", ",", " ", " ">>
LineCarol == <<" ", "C", "a", "r", "o", "l", " ", ",", "A", "2", "\r">>
LineBobA1 == <<"B", "o", "b", ",", "A", "1">>
LineNoName == <<",", "A", "1">>
LineNoGroup == <<"A", "l", "i", "c", "e", ",">>
LineIndentedComment == <<"\t", "#", "B", "o", "b", ",", "B", "2">>
LineSpaces == <<" ", " ">>

\* the lines of the import example
ExampleFile ==
  <<LineAlice, LineBlank, LineComment, LineBob, LineBob, LineBad, LineNoFields>>

\* more lines: a duplicate identity with another group, an empty identity,
\* whitespace alone, a comment after whitespace, an empty group
EdgeFile ==
  <<LineBob, LineBobA1, LineNoName, LineSpaces, LineCarol, LineIndentedComment,
    LineNoGroup, LineCarol>>

LinePool == {LineAlice, LineCarol, LineNoGroup, LineIndentedComment}

\* the sequences of at most n lines of a pool
FilesUpTo(pool, n) == UNION {[1..k -> pool] : k \in 0..n}

\* the sources imported while only loading
Files == {ExampleFile, EdgeFile} \cup FilesUpTo(LinePool, MaxLines)

\* the sources imported while draws are going on
ShortFiles == FilesUpTo({LineAlice, LineCarol, LineBobA1, LineNoGroup}, 1)

(***************************************************************************)
(* Bookkeeping of what draws have returned (not program state).            *)
(***************************************************************************)
\* the handles of the entities in a scope
Members(studs, scope) ==
  IF scope = NullOpt
  THEN {i \in 0..(Len(studs) - 1) : TRUE}
  ELSE {i \in 0..(Len(studs) - 1) : studs[i + 1].group = scope[1]}

\* A run of draws on a scope begins with a draw that finds the scope's pool
\* empty or absent, and is ended by an insertion (a successful addStudent, an
\* importFromFile that opens its source); the runs of cycle are also ended
\* by resetCycle.  seen is the set of handles the run has returned since it
\* began or since it last returned every entity of the scope.
NoCycles == [s \in Scopes |-> [run |-> FALSE, seen |-> {}]]

\* the handles returned so far once idx is returned: a new round starts when
\* every entity of the scope has been returned
Round(seen, members, idx) == IF seen = members THEN {idx} ELSE seen \cup {idx}

\* the run after a draw that returned idx; poolWasEmpty: the draw found the
\* pool empty or absent
NoteRun(r, members, idx, poolWasEmpty) ==
  IF r.run
  THEN [run |-> TRUE, seen |-> Round(r.seen, members, idx)]
  ELSE IF poolWasEmpty
  THEN [run |-> TRUE, seen |-> {idx}]
  ELSE r

\* a draw on scope returned idx
NoteDraw(scope, idx, poolWasEmpty) ==
  LET members == Members(students, scope)
  IN /\ cycle' = [cycle EXCEPT ![scope] = NoteRun(@, members, idx, poolWasEmpty)]
     /\ drawn' = [drawn EXCEPT ![scope] = NoteRun(@, members, idx, poolWasEmpty)]

\* the operation called, its argument where a claim reads it (the group of
\* pickRandom, the limit of printHistory, the lines of the source that
\* importFromFile opened), and the value returned or printed
Returned(op, arg, value) == [op |-> op, arg |-> arg, value |-> value]

(***************************************************************************)
(* The state machine.                                                      *)
(***************************************************************************)
Init ==
  /\ students = <<>>
  /\ groupPools = <<>>
  /\ globalPool = <<>>
  /\ history = <<>>
  /\ clock = 0
  /\ ret = Returned("RosterManager", NullOpt, <<>>)
  /\ cycle = NoCycles
  /\ drawn = NoCycles

\* resetCycle without groupPools_.clear()
resetCycleGlobalOnly ==
  /\ globalPool' = <<>>
  /\ groupPools' = groupPools

\* resetCycle, as the statement it is inside addStudent and importFromFile
resetCycle ==
  /\ globalPool' = <<>>
  /\ groupPools' = <<>>

\* bool addStudent(name, group, refreshPools)
AddStudent(name, group, refreshPools) ==
  LET r == addStudent(students, name, group)
  IN /\ r.ok => <<name, group>> \in Enrolments
     /\ students' = r.students
     /\ IF r.ok /\ refreshPools
        THEN resetCycle
        ELSE UNCHANGED <<globalPool, groupPools>>
     /\ ret' = Returned("addStudent", NullOpt, r.ok)
     /\ cycle' = (IF r.ok THEN NoCycles ELSE cycle)
     /\ drawn' = (IF r.ok THEN NoCycles ELSE drawn)
     /\ UNCHANGED <<history, clock>>

\* importFromFile calling resetCycle only if the import added a student
ImportFromFileResetsIfAdded(input) ==
  LET r == loadFromStream([students |-> students, stats |-> ZeroStats], input)
  IN /\ students' = r.students
     /\ IF r.stats.added > 0
        THEN resetCycle
        ELSE UNCHANGED <<globalPool, groupPools>>
     /\ ret' = Returned("importFromFile", Some(input), Some(r.stats))
     /\ cycle' = NoCycles
     /\ drawn' = NoCycles
     /\ UNCHANGED <<history, clock>>

\* importFromFile(path) when the file opens; input is its lines
ImportFromFile(input) ==
  LET r == loadFromStream([students |-> students, stats |-> ZeroStats], input)
  IN /\ students' = r.students
     /\ resetCycle
     /\ ret' = Returned("importFromFile", Some(input), Some(r.stats))
     /\ cycle' = NoCycles
     /\ drawn' = NoCycles
     /\ UNCHANGED <<history, clock>>

\* importFromFile calling resetCycle before it tests is_open()
ImportNotFoundResets ==
  /\ ret' = Returned("importFromFile", NullOpt, NullOpt)
  /\ resetCycle
  /\ UNCHANGED <<students, history, clock, cycle, drawn>>

\* importFromFile(path) when the file does not open
ImportNotFound ==
  /\ ret' = Returned("importFromFile", NullOpt, NullOpt)
  /\ UNCHANGED <<students, groupPools, globalPool, history, clock, cycle, drawn>>

\* pickRandom: the early return on an empty store
PickNoStudents(group) ==
  /\ students = <<>>
  /\ ret' = Returned("pickRandom", group, NullOpt)
  /\ UNCHANGED <<students, groupPools, globalPool, history, clock, cycle, drawn>>

\* pickRandom(group) without the call of refillGroupPool
PickGroupNoRefill(g) ==
  /\ students # <<>>
  /\ LET p3 == Touch(groupPools, g)
     IN IF p3[g] = <<>>
        THEN /\ groupPools' = p3
             /\ ret' = Returned("pickRandom", Some(g), NullOpt)
             /\ UNCHANGED <<students, globalPool, history, clock, cycle, drawn>>
        ELSE LET c == consumeIndex(students, history, p3[g], clock)
             IN /\ groupPools' = [p3 EXCEPT ![g] = c.pool]
                /\ students' = c.students
                /\ history' = c.history
                /\ clock' = clock + 1
                /\ ret' = Returned("pickRandom", Some(g), Some(c.value))
                /\ NoteDraw(Some(g), c.idx, FALSE)
                /\ UNCHANGED globalPool

\* pickRandom(group) with a group: lines 83-94
PickGroup(g) ==
  /\ students # <<>>
  /\ LET p1 == Touch(groupPools, g)
         wasEmpty == p1[g] = <<>>
     IN \E p2 \in (IF wasEmpty THEN refillGroupPool(students, p1, g) ELSE {p1}) :
          LET p3 == Touch(p2, g)
          IN IF p3[g] = <<>>
             THEN /\ groupPools' = p3
                  /\ ret' = Returned("pickRandom", Some(g), NullOpt)
                  /\ UNCHANGED <<students, globalPool, history, clock, cycle, drawn>>
             ELSE LET c == consumeIndex(students, history, p3[g], clock)
                  IN /\ groupPools' = [p3 EXCEPT ![g] = c.pool]
                     /\ students' = c.students
                     /\ history' = c.history
                     /\ clock' = clock + 1
                     /\ ret' = Returned("pickRandom", Some(g), Some(c.value))
                     /\ NoteDraw(Some(g), c.idx, wasEmpty)
                     /\ UNCHANGED globalPool

\* pickRandom() calling refillGlobalPool without testing globalPool_.empty()
PickGlobalAlwaysRefills ==
  /\ students # <<>>
  /\ \E p \in refillGlobalPool(students) :
       LET c == consumeIndex(students, history, p, clock)
       IN /\ globalPool' = c.pool
          /\ students' = c.students
          /\ history' = c.history
          /\ clock' = clock + 1
          /\ ret' = Returned("pickRandom", NullOpt, Some(c.value))
          /\ NoteDraw(NullOpt, c.idx, globalPool = <<>>)
          /\ UNCHANGED groupPools

\* pickRandom() without a group: lines 96-104
PickGlobal ==
  /\ students # <<>>
  /\ LET wasEmpty == globalPool = <<>>
     IN \E p \in (IF wasEmpty THEN refillGlobalPool(students) ELSE {globalPool}) :
          IF p = <<>>
          THEN /\ globalPool' = p
               /\ ret' = Returned("pickRandom", NullOpt, NullOpt)
               /\ UNCHANGED <<students, groupPools, history, clock, cycle, drawn>>
          ELSE LET c == consumeIndex(students, history, p, clock)
               IN /\ globalPool' = c.pool
                  /\ students' = c.students
                  /\ history' = c.history
                  /\ clock' = clock + 1
                  /\ ret' = Returned("pickRandom", NullOpt, Some(c.value))
                  /\ NoteDraw(NullOpt, c.idx, wasEmpty)
                  /\ UNCHANGED groupPools

\* std::optional<Student> pickRandom(group)
PickRandom(group) ==
  \/ PickNoStudents(group)
  \/ group # NullOpt /\ PickGroup(group[1])
  \/ group = NullOpt /\ PickGlobal

\* void printHistory(limit)
PrintHistory(limit) ==
  /\ ret' = Returned("printHistory", limit, printHistory(history, limit))
  /\ UNCHANGED <<students, groupPools, globalPool, history, clock, cycle, drawn>>

\* void resetCycle()
ResetCycle ==
  /\ resetCycle
  /\ ret' = Returned("resetCycle", NullOpt, <<>>)
  /\ cycle' = NoCycles
  /\ UNCHANGED <<students, history, clock, drawn>>

\* clearHistory setting every callCount to 0 with it
ClearHistoryAndCounts ==
  /\ history' = <<>>
  /\ students' = [i \in 1..Len(students) |-> [students[i] EXCEPT !.callCount = 0]]
  /\ ret' = Returned("clearHistory", NullOpt, <<>>)
  /\ UNCHANGED <<groupPools, globalPool, clock, cycle, drawn>>

\* clearHistory clearing the pools with the history
ClearHistoryAndPools ==
  /\ history' = <<>>
  /\ resetCycle
  /\ ret' = Returned("clearHistory", NullOpt, <<>>)
  /\ UNCHANGED <<students, clock, cycle, drawn>>

\* void clearHistory()
ClearHistory ==
  /\ history' = <<>>
  /\ ret' = Returned("clearHistory", NullOpt, <<>>)
  /\ UNCHANGED <<students, groupPools, globalPool, clock, cycle, drawn>>

\* the calls of addStudent: a new student comes with its enrolment, a call
\* for a name already in the store with either group
Add ==
  \E name \in Names, group \in Groups, refreshPools \in BOOLEAN :
    AddStudent(name, group, refreshPools)

\* at most max draws in a run
Draw(max) == clock < max /\ \E group \in Scopes : PickRandom(group)

Next ==
  \/ Add
  \/ \E input \in ShortFiles : ImportFromFile(input)
  \/ ImportNotFound
  \/ Draw(MaxDraws)
  \/ ResetCycle
  \/ ClearHistory

Spec == Init /\ [][Next]_vars

\* longer runs of draws, without clearHistory and failing imports
NextScoped ==
  \/ Add
  \/ \E input \in ShortFiles : ImportFromFile(input)
  \/ Draw(MaxScopedDraws)
  \/ ResetCycle

SpecScoped == Init /\ [][NextScoped]_vars

\* the history and its output
NextHistory ==
  \/ \E name \in Names, group \in Groups : AddStudent(name, group, TRUE)
  \/ Draw(MaxRecords)
  \/ ClearHistory
  \/ \E limit \in 0..MaxLimit : PrintHistory(limit)

SpecHistory == Init /\ [][NextHistory]_vars

\* the bulk loader, on every generated line source
NextLoad ==
  \/ Add
  \/ \E input \in Files : ImportFromFile(input)
  \/ ImportNotFound

SpecLoad == Init /\ [][NextLoad]_vars

\* the students of the runs of SpecCycle
CycleNames == {Alice, Bob}

\* two whole cycles of draws on a scope of two entities, with draws on other
\* scopes, resetCycle and clearHistory between the draws
NextCycle ==
  \/ \E name \in CycleNames, group \in Groups, refreshPools \in BOOLEAN :
       AddStudent(name, group, refreshPools)
  \/ Draw(MaxCycleDraws)
  \/ ResetCycle
  \/ ClearHistory

SpecCycle == Init /\ [][NextCycle]_vars

\* the limits printHistory is called with beside the other operations: all
\* records, or the most recent one
Limits == {0, 1}

\* every public operation that changes or prints the state
NextAll ==
  \/ Next
  \/ \E limit \in Limits : PrintHistory(limit)

SpecAll == Init /\ [][NextAll]_vars

(***************************************************************************)
(* What a step did, read from the value it returned.                       *)
(***************************************************************************)
\* the handle of the student called name
HandleOf(studs, name) ==
  CHOOSE h \in 0..(Len(studs) - 1) : studs[h + 1].name = name

\* the step is a pickRandom(scope) that returned an entity
Drew(scope) ==
  /\ ret'.op = "pickRandom"
  /\ ret'.arg = scope
  /\ ret'.value # NullOpt
  /\ clock' = clock + 1

\* the handle of the entity the step's draw returned
DrawnHandle == HandleOf(students, ret'.value[1].name)

\* the pool of a scope; an absent group pool is empty
PoolOf(scope) ==
  IF scope = NullOpt
  THEN globalPool
  ELSE IF scope[1] \in DOMAIN groupPools THEN groupPools[scope[1]] ELSE <<>>

\* the state follows a pickRandom(scope) that returned an entity
HasDrawn(scope) ==
  /\ ret.op = "pickRandom"
  /\ ret.arg = scope
  /\ ret.value # NullOpt

(***************************************************************************)
(* C1 as stated: in a run of draws on one scope with no intervening        *)
(* insertion (resetCycle may intervene), no entity is returned a second    *)
(* time until every entity of the scope has been returned once.            *)
(***************************************************************************)
C1_NoRepeatBetweenInsertions ==
  [][\A s \in Scopes :
       Drew(s) => \/ DrawnHandle \notin drawn[s].seen
                  \/ drawn[s].seen = Members(students, s)]_vars

(***************************************************************************)
(* C1 amended: in a run of draws on one scope that begins with the scope's *)
(* pool empty or absent and has no intervening insertion and no            *)
(* intervening resetCycle, no entity is returned a second time until every *)
(* entity of the scope has been returned once.                             *)
(***************************************************************************)
C1_NoRepeatWithinCycle ==
  [][\A s \in Scopes :
       Drew(s) => \/ DrawnHandle \notin cycle[s].seen
                  \/ cycle[s].seen = Members(students, s)]_vars

\* three draws on a scope of two entities: the first two returned both, the
\* third began the next round
C1_Witness ==
  \E s \in Scopes, h \in 0..2 :
    /\ HasDrawn(s)
    /\ Cardinality(Members(students, s)) = 2
    /\ cycle[s] = [run |-> TRUE, seen |-> {h}]
    /\ h \in Members(students, s)
    /\ students[h + 1].callCount = 2
    /\ \A k \in Members(students, s) \ {h} : students[k + 1].callCount = 1
    /\ Len(PoolOf(s)) = 1
    /\ clock = 3

(***************************************************************************)
(* C2 as stated: in every reachable state the sum of callCount over all    *)
(* entities equals the number of records in the history log.               *)
(***************************************************************************)
RECURSIVE SumCallCount(_)
SumCallCount(studs) ==
  IF studs = <<>> THEN 0 ELSE Head(studs).callCount + SumCallCount(Tail(studs))

C2_SumEqualsHistory == SumCallCount(students) = Len(history)

(***************************************************************************)
(* C2 amended: the sum of callCount equals the number of history records   *)
(* in the initial state, and every operation other than clearHistory       *)
(* (addStudent, importFromFile, pickRandom, resetCycle) keeps them equal;  *)
(* so they are equal in every state reached without clearHistory.          *)
(***************************************************************************)
C2_SumEqualsHistoryUntilClear ==
  /\ SumCallCount(students) = Len(history)
  /\ [][(ret'.op # "clearHistory" /\ SumCallCount(students) = Len(history))
          => SumCallCount(students') = Len(history')]_vars

\* two draws have been counted and recorded
C2_Witness ==
  /\ ret.op = "pickRandom"
  /\ ret.value # NullOpt
  /\ Len(history) = 2
  /\ SumCallCount(students) = 2

(***************************************************************************)
(* C3 as stated: immediately after a successful addStudent, for either     *)
(* value of refreshPools, or an importFromFile that adds at least one      *)
(* entity, the global pool and every group pool are empty.                 *)
(***************************************************************************)
\* the step is a call of addStudent that returned true
AddedStudent == ret'.op = "addStudent" /\ ret'.value = TRUE

\* the step is an importFromFile that added at least one entity
ImportedSome ==
  /\ ret'.op = "importFromFile"
  /\ ret'.value # NullOpt
  /\ ret'.value[1].added >= 1

\* every pool is empty or absent
AllPoolsEmpty(gPool, gPools) ==
  /\ gPool = <<>>
  /\ \A g \in DOMAIN gPools : gPools[g] = <<>>

C3_InvalidationOnEveryInsertion ==
  [][(AddedStudent \/ ImportedSome) => AllPoolsEmpty(globalPool', groupPools')]_vars

(***************************************************************************)
(* C3 amended: immediately after a successful addStudent with refreshPools *)
(* true, or an importFromFile that adds at least one entity, the global    *)
(* pool and every group pool are empty, so the next draw on a scope        *)
(* containing the last entity added can return it.                         *)
(***************************************************************************)
\* the first handles a draw on the scope can consume in a state with empty
\* pools: the heads of the pools its refill can install
FirstOfRefill(studs, scope) ==
  IF scope = NullOpt
  THEN {Head(p) : p \in refillGlobalPool(studs) \ {<<>>}}
  ELSE {Head(q[scope[1]]) :
          q \in {r \in refillGroupPool(studs, <<>>, scope[1]) : scope[1] \in DOMAIN r}}

\* the scopes holding the entity with handle h
ScopesOf(studs, h) == {s \in Scopes : h \in Members(studs, s)}

C3_InvalidationOnRefreshingInsertion ==
  [][((\E name \in Names, group \in Groups :
         AddedStudent /\ AddStudent(name, group, TRUE)) \/ ImportedSome)
       => /\ AllPoolsEmpty(globalPool', groupPools')
          /\ \A s \in ScopesOf(students', Len(students') - 1) :
               Len(students') - 1 \in FirstOfRefill(students', s)]_vars

\* a third student has been added after a draw, and the pools are empty
C3_Witness ==
  /\ ret.op = "addStudent"
  /\ ret.value = TRUE
  /\ Len(students) = 3
  /\ clock >= 1
  /\ students[3].callCount = 0
  /\ AllPoolsEmpty(globalPool, groupPools)
  /\ ~cycle[NullOpt].run

(***************************************************************************)
(* C4: addStudent with an identity already in the store returns false and  *)
(* leaves the store (its length, that entity's group and callCount), every *)
(* pool and the history unchanged, also when the group argument differs    *)
(* from the stored group.                                                  *)
(***************************************************************************)
C4_DuplicateLeavesStateUnchanged ==
  [][\A name \in Names, group \in Groups, refreshPools \in BOOLEAN :
       (/\ ret'.op = "addStudent"
        /\ HasName(students, name)
        /\ AddStudent(name, group, refreshPools))
         => /\ ret'.value = FALSE
            /\ UNCHANGED <<students, groupPools, globalPool, history, clock>>]_vars

\* addStudent has returned false in a state with a part-used pool and a history
C4_Witness ==
  /\ ret.op = "addStudent"
  /\ ret.value = FALSE
  /\ Len(students) >= 2
  /\ globalPool # <<>>
  /\ history # <<>>

(***************************************************************************)
(* C5: when pickRandom finds the pool of its scope empty or absent and     *)
(* replenishes it, the pool installed (the handle the draw consumes,       *)
(* followed by the pool left) holds every entity currently in the scope    *)
(* exactly once and no other entity.                                       *)
(***************************************************************************)
\* pool holds each element of members exactly once, and nothing else
IsArrangementOf(pool, members) ==
  /\ Len(pool) = Cardinality(members)
  /\ {pool[i] : i \in 1..Len(pool)} = members

C5_ReplenishCompleteness ==
  [][\A s \in Scopes :
       (Drew(s) /\ PoolOf(s) = <<>>)
         => IsArrangementOf(<<DrawnHandle>> \o PoolOf(s)', Members(students, s))]_vars

\* after an earlier draw, a draw has replenished the pool of a scope of
\* three entities and returned the last of them
C5_Witness ==
  \E s \in Scopes :
    /\ HasDrawn(s)
    /\ Cardinality(Members(students, s)) = 3
    /\ Len(PoolOf(s)) = 2
    /\ cycle[s] = [run |-> TRUE, seen |-> {2}]
    /\ clock = 2
    /\ students[1].callCount = 1

(***************************************************************************)
(* C6: a pickRandom on group g that returns an entity returns one whose    *)
(* group is g.  With Alice/A1, Bob/A1 and Carol/A2 in the store, a draw on *)
(* A1 returns Alice or Bob: one that finds the pool of A1 empty leaves     *)
(* exactly the other of the two in the pool, and the next one returns that *)
(* other and leaves the pool empty, so that a third draw replenishes.      *)
(***************************************************************************)
\* the store holds exactly Alice/A1, Bob/A1 and Carol/A2
ExampleStore(studs) ==
  /\ Len(studs) = 3
  /\ {<<studs[i].name, studs[i].group>> : i \in 1..3}
       = {<<Alice, A1>>, <<Bob, A1>>, <<Carol, A2>>}

C6_ScopedDrawIsolation ==
  [][\A g \in Groups :
       Drew(Some(g))
         => /\ ret'.value[1].group = g
            /\ students[DrawnHandle + 1].group = g
            /\ (ExampleStore(students) /\ g = A1)
                 => /\ ret'.value[1].name \in {Alice, Bob}
                    /\ IF PoolOf(Some(A1)) = <<>>
                       THEN /\ Len(PoolOf(Some(A1))') = 1
                            /\ PoolOf(Some(A1))'[1] # DrawnHandle
                            /\ students[PoolOf(Some(A1))'[1] + 1].name \in {Alice, Bob}
                       ELSE /\ PoolOf(Some(A1)) = <<DrawnHandle>>
                            /\ PoolOf(Some(A1))' = <<>>]_vars

\* three draws on A1 with Alice/A1, Bob/A1 and Carol/A2 in the store: the
\* third has replenished the pool and returned Alice or Bob a second time
C6_Witness ==
  \E h \in 0..2 :
    /\ ExampleStore(students)
    /\ HasDrawn(Some(A1))
    /\ clock = 3
    /\ cycle[Some(A1)] = [run |-> TRUE, seen |-> {h}]
    /\ students[h + 1].callCount = 2
    /\ \A k \in 0..2 :
         students[k + 1].callCount =
           IF k = h THEN 2 ELSE IF students[k + 1].group = A1 THEN 1 ELSE 0
    /\ Len(PoolOf(Some(A1))) = 1

(***************************************************************************)
(* C8: when the line source cannot be opened, importFromFile returns the   *)
(* absent result and leaves the store, every counter, the history and      *)
(* every pool unchanged; a source that opens gives statistics, all zero    *)
(* for a source without lines, never the absent result.                    *)
(***************************************************************************)
C8_NotFound ==
  [][ret'.op = "importFromFile"
       => /\ ret'.value = NullOpt
               => UNCHANGED <<students, groupPools, globalPool, history, clock>>
          /\ ret'.arg # NullOpt => ret'.value # NullOpt
          /\ ret'.arg = Some(<<>>) => ret'.value = Some(ZeroStats)]_vars

\* importFromFile has returned the absent result in a state with part-used
\* pools and a history
C8_Witness ==
  /\ ret.op = "importFromFile"
  /\ ret.value = NullOpt
  /\ globalPool # <<>>
  /\ \E g \in DOMAIN groupPools : groupPools[g] # <<>>
  /\ history # <<>>

(***************************************************************************)
(* C9: pickRandom(scope) returns the empty result exactly when the scope   *)
(* has no entity, never because the pool of the scope was exhausted; and   *)
(* when it returns the empty result, no callCount changes, no history      *)
(* record is appended and no other scope's pool changes.                   *)
(***************************************************************************)
\* the step leaves the pools of the scopes other than scope as they were
OtherPoolsUnchanged(scope) ==
  IF scope = NullOpt
  THEN groupPools' = groupPools
  ELSE /\ globalPool' = globalPool
       /\ DOMAIN groupPools' \ {scope[1]} = DOMAIN groupPools \ {scope[1]}
       /\ \A k \in DOMAIN groupPools \ {scope[1]} : groupPools'[k] = groupPools[k]

C10_HistoryOrdering ==
  ret.op = "printHistory"
    => LET limit == ret.arg
           out == ret.value.lines
           n == Len(history)
           m == IF limit = 0 THEN n ELSE Min(limit, n)
       IN /\ Len(out) = m
          /\ \A i \in 1..m : out[i] = history[n - i + 1]
          /\ ret.value.noHistory <=> n = 0

\* printHistory(2) after three draws
C10_Witness ==
  /\ ret.op = "printHistory"
  /\ ret.arg = 2
  /\ Len(history) = 3
  /\ ret.value.lines = <<history[3], history[2]>>
  /\ history[3] # history[2]

(***************************************************************************)
(* C11: clearHistory empties the history and leaves the store, every       *)
(* callCount, the global pool and every group pool as they were; every     *)
(* other operation leaves the records of the history as an unchanged       *)
(* prefix of the history after it.                                         *)
(***************************************************************************)
C11_ClearHistoryFrame ==
  [][/\ ret'.op = "clearHistory"
          => /\ history' = <<>>
             /\ UNCHANGED <<students, groupPools, globalPool>>
     /\ ret'.op # "clearHistory"
          => /\ Len(history') >= Len(history)
             /\ SubSeq(history', 1, Len(history)) = history]_vars

\* clearHistory has emptied the history after two draws, the global pool
\* being part-used
C11_Witness ==
  /\ ret.op = "clearHistory"
  /\ history = <<>>
  /\ clock = 2
  /\ SumCallCount(students) = 2
  /\ globalPool # <<>>

(***************************************************************************)
(* C12: in every state reached by addStudent (with either value of         *)
(* refreshPools) and importFromFile, no two entities of the store have the *)
(* same identity.                                                          *)
(***************************************************************************)
C12_IdentityUnique ==
  \A i, j \in 1..Len(students) :
    i # j => students[i].name # students[j].name

\* an import that met duplicates has left three entities in the store
C12_Witness ==
  /\ ret.op = "importFromFile"
  /\ ret.value # NullOpt
  /\ ret.value[1].duplicates >= 2
  /\ ret.value[1].added >= 1
  /\ Len(students) = 3

(***************************************************************************)
(* C13: in every reachable state, also after an addStudent with            *)
(* refreshPools false that leaves the old pools in place, every handle in  *)
(* the global pool and in every group pool is an index of an entity of the *)
(* store, no pool holds a handle twice, and every handle in the pool of a  *)
(* group refers to an entity of that group.                                *)
(***************************************************************************)
\* the handles of pool are indices of the store and pairwise distinct
IsWellFormedPool(pool) ==
  /\ \A i \in 1..Len(pool) : pool[i] \in 0..(Len(students) - 1)
  /\ \A i, j \in 1..Len(pool) : i # j => pool[i] # pool[j]

C13_PoolsWellFormed ==
  /\ IsWellFormedPool(globalPool)
  /\ \A g \in DOMAIN groupPools :
       /\ IsWellFormedPool(groupPools[g])
       /\ \A i \in 1..Len(groupPools[g]) :
            students[groupPools[g][i] + 1].group = g

\* an addStudent that did not refresh the pools has added a third entity
\* beside a part-used global pool and a part-used group pool
C13_Witness ==
  /\ ret.op = "addStudent"
  /\ ret.value = TRUE
  /\ Len(students) = 3
  /\ globalPool # <<>>
  /\ \E g \in DOMAIN groupPools : groupPools[g] # <<>>
  /\ Len(students) - 1 \notin {globalPool[i] : i \in 1..Len(globalPool)}

(***************************************************************************)
(* C14: in every step, a pool that is not empty before the step is not     *)
(* larger after it; the size of a pool grows only in a draw on its scope   *)
(* that found the pool empty or absent; and a draw that returns an entity  *)
(* from a pool that was not empty shrinks that pool by exactly one.        *)
(***************************************************************************)
C14_PoolMonotonicity ==
  [][\A s \in Scopes :
       LET before == Len(PoolOf(s))
           after == Len(PoolOf(s)')
       IN /\ before > 0 => after <= before
          /\ after > before
               => /\ ret'.op = "pickRandom"
                  /\ ret'.arg = s
                  /\ before = 0
          /\ (Drew(s) /\ before > 0) => after = before - 1]_vars

\* the second draw on a scope of three entities has shrunk its pool from
\* two handles to one
C14_Witness ==
  \E s \in Scopes :
    /\ HasDrawn(s)
    /\ Cardinality(Members(students, s)) = 3
    /\ Cardinality(cycle[s].seen) = 2
    /\ Len(PoolOf(s)) = 1

(***************************************************************************)
(* C15: a pickRandom that returns an entity increments the callCount of    *)
(* that entity by exactly 1, appends exactly one record to the end of the  *)
(* history, with the identity and group of the entity, removes exactly the *)
(* first handle of the pool of its scope (of the pool it installs, when it *)
(* found the pool empty or absent), and leaves every other callCount,      *)
(* every identity and group and the membership of the store unchanged; the *)
(* copy returned carries the incremented callCount.                        *)
(***************************************************************************)
C15_EffectOfDraw ==
  [][\A s \in Scopes :
       Drew(s)
         => LET h == DrawnHandle
                v == ret'.value[1]
                n == Len(history)
            IN /\ Len(students') = Len(students)
               /\ students'[h + 1] = [students[h + 1] EXCEPT !.callCount = @ + 1]
               /\ \A k \in 1..Len(students) : k # h + 1 => students'[k] = students[k]
               /\ v = students'[h + 1]
               /\ Len(history') = n + 1
               /\ SubSeq(history', 1, n) = history
               /\ history'[n + 1].name = v.name
               /\ history'[n + 1].group = v.group
               /\ IF PoolOf(s) # <<>>
                  THEN /\ h = Head(PoolOf(s))
                       /\ PoolOf(s)' = Tail(PoolOf(s))
                  ELSE /\ Len(PoolOf(s)') = Cardinality(Members(students, s)) - 1
                       /\ \A i \in 1..Len(PoolOf(s)') : PoolOf(s)'[i] # h]_vars

\* the third draw has returned an entity a second time, with callCount 2 in
\* the copy and in the store, and its record ends the history
C15_Witness ==
  \E h \in 0..(Len(students) - 1) :
    /\ ret.op = "pickRandom"
    /\ ret.value = Some(students[h + 1])
    /\ students[h + 1].callCount = 2
    /\ Len(students) >= 2
    /\ Len(history) = 3
    /\ history[3].name = students[h + 1].name

(***************************************************************************)
(* C16: a pickRandom on one scope changes only the pool of that scope: a   *)
(* draw on a group leaves the global pool and the pool of every other      *)
(* group as they were, a global draw leaves every group pool as it was; so *)
(* a handle another scope's pool holds is still in it after the draw, and  *)
(* an entity a global draw has returned in the current cycle can still be  *)
(* returned by a draw on its group before either pool is exhausted.        *)
(***************************************************************************)
\* the handles in a pool
HandlesOf(pool) == {pool[i] : i \in 1..Len(pool)}

C16_ScopeIndependence ==
  [][\A s \in Scopes :
       (ret'.op = "pickRandom" /\ ret'.arg = s)
         => /\ OtherPoolsUnchanged(s)
            /\ \A t \in Scopes \ {s} :
                 /\ PoolOf(t)' = PoolOf(t)
                 /\ Drew(s) /\ DrawnHandle \in HandlesOf(PoolOf(t))
                      => DrawnHandle \in HandlesOf(PoolOf(t)')]_vars

\* a draw on A1 has returned the entity the global draw before it returned,
\* and neither pool is exhausted
C16_Witness ==
  \E h \in 0..(Len(students) - 1) :
    /\ HasDrawn(Some(A1))
    /\ ret.value[1].name = students[h + 1].name
    /\ clock = 2
    /\ students[h + 1].callCount = 2
    /\ cycle[NullOpt] = [run |-> TRUE, seen |-> {h}]
    /\ cycle[Some(A1)] = [run |-> TRUE, seen |-> {h}]
    /\ globalPool # <<>>
    /\ PoolOf(Some(A1)) # <<>>

(***************************************************************************)
(* C17: from a state where the pool of a scope with n >= 1 entities is     *)
(* empty or absent, the next n draws on the scope, with no addStudent,     *)
(* importFromFile or resetCycle between them (draws on other scopes and    *)
(* clearHistory may come between), return each of the n entities exactly   *)
(* once, the pool is empty after the n-th, and draw n+1 starts a new cycle *)
(* of the same kind.  Stated on each draw of such a run: the draw finds    *)
(* the pool empty exactly when no entity, or every entity, has been        *)
(* returned in the cycle; it returns an entity not yet returned in the     *)
(* cycle; and the pool it leaves holds exactly the entities the cycle has  *)
(* still to return, each once.                                             *)
(***************************************************************************)
C17_ExactCycle ==
  [][\A s \in Scopes :
       (Drew(s) /\ (cycle[s].run \/ PoolOf(s) = <<>>))
         => LET members == Members(students, s)
                seen == IF cycle[s].run THEN cycle[s].seen ELSE {}
                returned == IF seen = members THEN {} ELSE seen
            IN /\ (PoolOf(s) = <<>>) <=> (returned = {})
               /\ DrawnHandle \in members \ returned
               /\ IsArrangementOf(PoolOf(s)', members \ (returned \cup {DrawnHandle}))
               /\ cycle'[s].seen = returned \cup {DrawnHandle}]_vars

\* four draws on a scope of two entities, with a clearHistory among them,
\* have returned each entity twice and left the pool empty
C17_Witness ==
  \E s \in Scopes :
    /\ HasDrawn(s)
    /\ Members(students, s) = {0, 1}
    /\ cycle[s] = [run |-> TRUE, seen |-> {0, 1}]
    /\ students[1].callCount = 2
    /\ students[2].callCount = 2
    /\ PoolOf(s) = <<>>
    /\ clock = 4
    /\ Len(history) < 4

(***************************************************************************)
(* C18: resetCycle, and an importFromFile that opens its source, even one  *)
(* that adds no entity, leave the global pool empty and no group pool, and *)
(* change neither the entities already in the store, nor their callCounts, *)
(* nor the history (resetCycle and an import that adds nothing leave the   *)
(* store as it was); so when they interrupt a cycle that has not returned  *)
(* every entity of its scope, the next draw on the scope replenishes and   *)
(* can return each entity the interrupted cycle had returned.              *)
(***************************************************************************)
\* the step is a resetCycle or an importFromFile that opened its source
Invalidated ==
  \/ ret'.op = "resetCycle"
  \/ ret'.op = "importFromFile" /\ ret'.value # NullOpt

C18_ResetFrame ==
  [][Invalidated
       => /\ globalPool' = <<>>
          /\ groupPools' = <<>>
          /\ history' = history
          /\ SubSeq(students', 1, Len(students)) = students
          /\ (ret'.op = "resetCycle" \/ ret'.value[1].added = 0)
               => students' = students
          /\ \A s \in Scopes :
               (cycle[s].run /\ cycle[s].seen # Members(students, s))
                 => cycle[s].seen \subseteq FirstOfRefill(students', s)]_vars

\* resetCycle has interrupted a global cycle that had returned one entity
\* of three
C18_Witness ==
  /\ ret.op = "resetCycle"
  /\ Len(students) = 3
  /\ drawn[NullOpt].run
  /\ Cardinality(drawn[NullOpt].seen) = 1
  /\ ~cycle[NullOpt].run
  /\ globalPool = <<>>
  /\ history # <<>>

(***************************************************************************)
(* C19: from every reachable state, also one with a pool left in place by  *)
(* an addStudent with refreshPools false, if only draws on one scope with  *)
(* n >= 1 entities follow, every entity of the scope is returned within    *)
(* the next 2n-1 of them, whatever the shuffles produce.  The draws that   *)
(* follow are computed by pickRandomOutcomes, and every draw the program   *)
(* makes is one of its outcomes.                                           *)
(***************************************************************************)
\* what a pickRandom(scope) that returns an entity can leave of the store and
\* the pools, with the handle it returns: lines 83-104 applied to a state
pickRandomOutcomes(studs, gPool, gPools, scope) ==
  IF studs = <<>>
  THEN {}
  ELSE IF scope = NullOpt
  THEN {LET c == consumeIndex(studs, <<>>, p, 0)
        IN [students |-> c.students, globalPool |-> c.pool,
            groupPools |-> gPools, idx |-> c.idx] :
          p \in (IF gPool = <<>> THEN refillGlobalPool(studs) ELSE {gPool}) \ {<<>>}}
  ELSE LET g == scope[1]
           p1 == Touch(gPools, g)
           refilled == IF p1[g] = <<>> THEN refillGroupPool(studs, p1, g) ELSE {p1}
       IN {LET c == consumeIndex(studs, <<>>, p2[g], 0)
           IN [students |-> c.students, globalPool |-> gPool,
               groupPools |-> [p2 EXCEPT ![g] = c.pool], idx |-> c.idx] :
             p2 \in {q \in refilled : g \in DOMAIN q /\ q[g] # <<>>}}

RECURSIVE CoveredWithin(_, _, _, _, _, _)
\* the draws on scope return entities, and every run of d of them from the
\* state returns every handle of missing
CoveredWithin(studs, gPool, gPools, scope, d, missing) ==
  IF missing = {}
  THEN TRUE
  ELSE IF d = 0
  THEN FALSE
  ELSE LET outcomes == pickRandomOutcomes(studs, gPool, gPools, scope)
       IN /\ outcomes # {}
          /\ \A o \in outcomes :
               CoveredWithin(o.students, o.globalPool, o.groupPools, scope, d - 1,
                             missing \ {o.idx})

\* every entity of the scope is returned within the next d draws on it
CoveredFromHere(scope, d) ==
  CoveredWithin(students, globalPool, groupPools, scope, d, Members(students, scope))

C19_BoundedCoverage ==
  /\ [](\A s \in Scopes :
          LET n == Cardinality(Members(students, s))
          IN n >= 1 => CoveredFromHere(s, 2 * n - 1))
  /\ [][\A s \in Scopes :
          Drew(s)
            => \E o \in pickRandomOutcomes(students, globalPool, groupPools, s) :
                 /\ o.students = students'
                 /\ o.globalPool = globalPool'
                 /\ o.groupPools = groupPools'
                 /\ o.idx = DrawnHandle]_vars

\* an addStudent that did not refresh the pools has added a third entity
\* beside a part-used global pool: the next five global draws return every
\* entity, the next three need not
C19_Witness ==
  /\ ret.op = "addStudent"
  /\ ret.value = TRUE
  /\ Len(students) = 3
  /\ Len(globalPool) = 1
  /\ CoveredFromHere(NullOpt, 5)
  /\ ~CoveredFromHere(NullOpt, 3)

(***************************************************************************)
(* C20: in every reachable state the history has at most as many records   *)
(* as the sum of the callCounts; the two are equal initially, and every    *)
(* operation other than clearHistory keeps their difference as it was, so  *)
(* they are equal in every state reached without clearHistory and the      *)
(* difference stays constant after one; no operation removes an entity or  *)
(* decreases a callCount.                                                  *)
(***************************************************************************)
\* the draws counted and no longer recorded
Cleared == SumCallCount(students) - Len(history)

C20_CounterHistoryBound ==
  /\ Cleared = 0
  /\ [](Cleared >= 0)
  /\ [][/\ ret'.op # "clearHistory" => Cleared' = Cleared
        /\ Len(students') >= Len(students)
        /\ \A i \in 1..Len(students) :
             students'[i].callCount >= students[i].callCount]_vars

\* a draw after a clearHistory that followed a draw: two draws counted, one
\* recorded
C20_Witness ==
  /\ ret.op = "pickRandom"
  /\ ret.value # NullOpt
  /\ SumCallCount(students) = 2
  /\ Len(history) = 1
  /\ history[1].timestamp = 1

(***************************************************************************)
(* C7: an import skips blank and comment lines without counting them,      *)
(* counts as malformed each other line with no delimiter or with an empty  *)
(* trimmed identity or group, counts as duplicate each well-formed line    *)
(* whose identity is in the store at that point (entities added earlier in *)
(* the same import included), and counts as added every other well-formed  *)
(* line, appending that entity with callCount 0; the store grows by        *)
(* exactly the added entities, whatever lines come between.  On an empty   *)
(* store the example lines give added 2, duplicates 1, malformed 2.        *)
(***************************************************************************)
\* every character of the line is whitespace
IsBlank(line) == \A i \in 1..Len(line) : line[i] \in Whitespace

\* the first character of the line that is not whitespace is '#'
IsComment(line) ==
  \E i \in 1..Len(line) :
    line[i] = "#" /\ \A j \in 1..(i - 1) : line[j] \in Whitespace

\* text without the whitespace around it: from its first to its last
\* character that is not whitespace
Stripped(text) ==
  LET kept == {i \in 1..Len(text) : text[i] \notin Whitespace}
  IN IF kept = {}
     THEN <<>>
     ELSE SubSeq(text,
                 CHOOSE a \in kept : \A i \in kept : a <= i,
                 CHOOSE b \in kept : \A i \in kept : i <= b)

HasDelimiter(line) == \E i \in 1..Len(line) : line[i] = ","

\* the position of the first delimiter of a line that has one
Delimiter(line) ==
  CHOOSE i \in 1..Len(line) : line[i] = "," /\ \A j \in 1..(i - 1) : line[j] # ","

Identity(line) == Stripped(SubSeq(line, 1, Delimiter(line) - 1))
GroupField(line) == Stripped(SubSeq(line, Delimiter(line) + 1, Len(line)))

IsSkipped(line) == IsBlank(line) \/ IsComment(line)

IsWellFormed(line) ==
  /\ ~IsSkipped(line)
  /\ HasDelimiter(line)
  /\ Identity(line) # <<>>
  /\ GroupField(line) # <<>>

IsMalformed(line) == ~IsSkipped(line) /\ ~IsWellFormed(line)

\* the identities in the store when line k of input is reached
KnownAt(studs, input, k) ==
  {studs[i].name : i \in 1..Len(studs)}
    \cup {Identity(input[j]) : j \in {j \in 1..(k - 1) : IsWellFormed(input[j])}}

IsDuplicateAt(studs, input, k) ==
  IsWellFormed(input[k]) /\ Identity(input[k]) \in KnownAt(studs, input, k)

IsAddedAt(studs, input, k) ==
  IsWellFormed(input[k]) /\ Identity(input[k]) \notin KnownAt(studs, input, k)

ExpectedStats(studs, input) ==
  [added |-> Cardinality({k \in 1..Len(input) : IsAddedAt(studs, input, k)}),
   duplicates |-> Cardinality({k \in 1..Len(input) : IsDuplicateAt(studs, input, k)}),
   malformed |-> Cardinality({k \in 1..Len(input) : IsMalformed(input[k])})]

\* the entities of the added lines, in the order of the lines
ExpectedAdded(studs, input) ==
  LET Added(k) == IsAddedAt(studs, input, k)
      lines == SelectSeq([k \in 1..Len(input) |-> k], Added)
  IN [i \in 1..Len(lines) |->
        [name |-> Identity(input[lines[i]]),
         group |-> GroupField(input[lines[i]]),
         callCount |-> 0]]

C7_ImportClassification ==
  [][(ret'.op = "importFromFile" /\ ret'.value # NullOpt)
       => LET input == ret'.arg[1]
          IN /\ ret'.value[1] = ExpectedStats(students, input)
             /\ students' = students \o ExpectedAdded(students, input)
             /\ Len(students') = Len(students) + ret'.value[1].added
             /\ (students = <<>> /\ input = ExampleFile)
                  => /\ ret'.value[1] =
                          [added |-> 2, duplicates |-> 1, malformed |-> 2]
                     /\ students' =
                          <<[name |-> Alice, group |-> A1, callCount |-> 0],
                            [name |-> Bob, group |-> B2, callCount |-> 0]>>]_vars

\* the example lines have been imported into an empty store
C7_Witness ==
  /\ ret.op = "importFromFile"
  /\ ret.arg = Some(ExampleFile)
  /\ ret.value = Some([added |-> 2, duplicates |-> 1, malformed |-> 2])
  /\ students = <<[name |-> Alice, group |-> A1, callCount |-> 0],
                  [name |-> Bob, group |-> B2, callCount |-> 0]>>

====
